---- MODULE Spec2Model ----
(***************************************************************************)
(* Model of transformer.py, the xAOD C++ transformer worker of ServiceX:   *)
(* the start-up sequence of __main__ (configuration, compile_code, queue   *)
(* consumer), callback with its bounded retry loop, and                    *)
(* transform_single_file.  Every call into a collaborator (status          *)
(* reporter, object store, queue channel, uproot/arrow conversion) either  *)
(* returns or raises; the external runner.sh leaves any exit status and    *)
(* any state of the output path.  str.encode is taken with its Python 2    *)
(* meaning (a str), the interpreter of the image the worker is built on.   *)
(***************************************************************************)
EXTENDS Integers, Sequences, FiniteSets, TLC

\* ------------------------------------------------------------ bounds ----
MaxMsgs == 2

\* --------------------------------------------------------- constants ----
MAX_RETRIES == 3

None == "None"

\* no message held / no request decoded yet
NoBody == [none |-> TRUE]
NoRequest == [none |-> TRUE]

\* ------------------------------------------------------------- paths ----
\* A path is a sequence of tokens; "/" is the separator token.
FilePaths == { <<"/", "a">>, <<"/", "d", "/", "b">> }

\* str.replace('/', ':')
Replace(s) == [i \in 1..Len(s) |-> IF s[i] = "/" THEN ":" ELSE s[i]]

RootFile(file_path) == Replace(file_path)

OutputPath(file_path) == <<"/", "home", "/", "atlas", "/">> \o RootFile(file_path)

OutputPaths == { OutputPath(p) : p \in FilePaths }

\* What can be found at a path: nothing, a regular file with content, a
\* zero-byte regular file, something that is not a regular file.
FsStates == {"absent", "file", "empty", "dir"}

Exists(st) == st # "absent"

IsFile(st) == st \in {"file", "empty"}

\* ---------------------------------------------------------- messages ----
RequiredKeys == {"request-id", "file-path", "file-id", "service-endpoint", "chunk-size"}

RequestIds == {"r1", "r2"}

Request(rid, path) ==
    [k \in RequiredKeys |->
        CASE k = "request-id" -> <<rid>>
          [] k = "file-path" -> path
          [] k = "file-id" -> <<"f1">>
          [] k = "service-endpoint" -> <<"http://servicex">>
          [] k = "chunk-size" -> <<"1000">>]

Without(req, k) == [j \in (DOMAIN req) \ {k} |-> req[j]]

\* A message body: text that parses as JSON or not, and the object it
\* parses to.
\* Two requests, each with its own file.
ValidBodies ==
    { [json |-> TRUE, obj |-> Request(m[1], m[2])] :
        m \in { <<"r1", <<"/", "a">>>>, <<"r2", <<"/", "d", "/", "b">>>> } }

MalformedBodies ==
    { [json |-> FALSE, obj |-> << >>] }
    \cup { [json |-> TRUE, obj |-> Without(Request("r1", <<"/", "a">>), k)] : k \in RequiredKeys }

Bodies == ValidBodies \cup MalformedBodies

\* json.loads alone: the fields read with a default instead of subscripted
DecodeRaisesJsonOnly(b) == ~b.json

\* json.loads(body) followed by the five subscriptions of callback raises
\* (ValueError, KeyError) on these bodies.
DecodeRaises(b) == ~b.json \/ \E k \in RequiredKeys : k \notin DOMAIN b.obj

\* ---------------------------------------------------------- os.system ----
ExitCodes == {0, 1}

\* Exit status of the shell pipeline `cmd | tee log.txt`: /bin/sh reports the
\* status of the last command of a pipeline.
PipelineStatus(cmdExit, teeExit) == teeExit

\* os.system returns the wait status of the shell: exit status in the high byte.
OsSystem(cmdExit, teeExit) == PipelineStatus(cmdExit, teeExit) * 256

\* ----------------------------------------------------------- retries ----
\* the comparison written as `file_retries > MAX_RETRIES`
RetriesExhaustedOffByOne(n) == n > MAX_RETRIES

\* `if file_retries == MAX_RETRIES`
RetriesExhausted(n) == n = MAX_RETRIES

\* -------------------------------------------------------------- state ----
VARIABLES
    args,             \* parsed command line
    object_store,     \* module global: TRUE when an ObjectStoreManager is set
    mainpc,           \* position of __main__
    compileExit,      \* exit status of `runner.sh -c`, -1 before it ran
    delivered,        \* number of messages handed to callback so far
    body,             \* body of the message callback is working on
    transform_request,\* the decoded request
    pc,               \* position of callback
    file_done,
    file_retries,
    error,            \* the exception being handled / that escaped
    raisedAt,         \* position at which the latest exception was raised
    r,                \* result of os.system in transform_single_file
    runnerExit,       \* exit status of runner.sh itself in the latest run
    classified,       \* outcome of the failure classification of the latest run
    fs,               \* what is at each output path
    events,           \* calls made for the current message, in order
    tick,             \* time.time() read at line 163
    tock,             \* time.time() read at line 174
    logfile,          \* lines of the log text handed to parse_output_logs
    total_events,     \* local of parse_output_logs
    events_processed, \* local of parse_output_logs
    parses            \* number of calls of parse_output_logs made

vars == <<args, object_store, mainpc, compileExit, delivered, body,
          transform_request, pc, file_done, file_retries, error, raisedAt, r,
          runnerExit, classified, fs, events, tick, tock,
          logfile, total_events, events_processed, parses>>

mainVars == <<args, object_store, mainpc, compileExit>>
jobVars == <<body, transform_request, file_done, file_retries>>
runVars == <<r, runnerExit, classified, fs>>
timeVars == <<tick, tock>>
parseVars == <<logfile, total_events, events_processed, parses>>

ArgSets ==
    [result_destination : {"kafka", "object-store", "volume"},
     output_dir : BOOLEAN,      \* --output-dir given
     request_id : BOOLEAN,      \* --request-id given
     path : BOOLEAN]            \* --path given

Event(op, status, try, err, ok) ==
    [op |-> op, status |-> status, try |-> try, err |-> err, ok |-> ok]

\* time.time(): a logical clock that advances with every call made for the
\* message
Now(evs) == Len(evs)

\* round(tock - tick, 2)
Elapsed(t0, t1) == t1 - t0

\* the routing key without its suffix
RoutingKeyBare(request_id) == request_id

\* line 197: _request_id + '_errors'
RoutingKey(request_id) == request_id \o <<"_errors">>

\* line 195: transform_request['error'] = str(error)
WithError(req, err) ==
    [k \in (DOMAIN req) \cup {"error"} |-> IF k = "error" THEN <<err>> ELSE req[k]]

\* json.dumps of a dict: a text that parses as JSON, to that object
JsonDumps(obj) == [json |-> TRUE, obj |-> obj]

\* counters taken from the parsed log instead of the literal zeros
CountersFromLog == [num_messages |-> 0, total_events |-> 1, total_bytes |-> 1]

\* lines 184-187 and 200-201: num_messages=0, total_events=0, total_bytes=0
ZeroCounters == [num_messages |-> 0, total_events |-> 0, total_bytes |-> 0]

\* the consumer also dispatches while a job waits between two attempts
ConsumerReadyBetweenAttempts == pc \in {"idle", "retry_post"}

\* lines 288-289 and 150-216: the consumer calls callback synchronously and
\* takes the next message only when callback has returned
ConsumerReady == pc = "idle"

\* the local file removed without being uploaded
AfterClassifyNoUpload(store) == IF ~store THEN "convert" ELSE "remove"

\* the conversion made whatever the object store
AfterClassifyAlwaysConvert(store) == "convert"

\* lines 176 and 241: the step that follows a run classified as success
AfterClassify(store) == IF ~store THEN "convert" ELSE "upload"

Init ==
    /\ args \in ArgSets
    /\ object_store = FALSE
    /\ mainpc = "configure"
    /\ compileExit = -1
    /\ delivered = 0
    /\ body = NoBody
    /\ transform_request = NoRequest
    /\ pc = "idle"
    /\ file_done = FALSE
    /\ file_retries = 0
    /\ error = None
    /\ raisedAt = None
    /\ r = 0
    /\ runnerExit = 0
    /\ classified = None
    /\ fs = [p \in OutputPaths |-> "absent"]
    /\ events = << >>
    /\ tick = 0
    /\ tock = 0
    /\ logfile = << >>
    /\ total_events = 0
    /\ events_processed = 0
    /\ parses = 0

\* ------------------------------------------------------------ __main__ --
\* lines 277-283
Configure ==
    /\ mainpc = "configure"
    /\ object_store' = IF args.result_destination = "kafka" THEN FALSE
                       ELSE IF ~args.output_dir /\ args.result_destination = "object-store"
                            THEN TRUE
                            ELSE FALSE
    /\ mainpc' = "compile"
    /\ UNCHANGED <<args, compileExit, delivered, pc, error, raisedAt, events>>
    /\ UNCHANGED jobVars
    /\ UNCHANGED runVars
    /\ UNCHANGED parseVars
    /\ UNCHANGED timeVars

\* compile_code, line 285
compile_code ==
    /\ mainpc = "compile"
    /\ \E rc \in ExitCodes, tc \in ExitCodes :
          /\ compileExit' = rc
          /\ mainpc' = IF OsSystem(rc, tc) # 0 THEN "crashed" ELSE "compiled"
    /\ UNCHANGED <<args, object_store, delivered, pc, error, raisedAt, events>>
    /\ UNCHANGED jobVars
    /\ UNCHANGED runVars
    /\ UNCHANGED parseVars
    /\ UNCHANGED timeVars

\* lines 288-289: RabbitMQManager(args.rabbit_uri, args.request_id, callback)
StartConsumer ==
    /\ mainpc = "compiled"
    /\ args.request_id /\ ~args.path
    /\ mainpc' = "consuming"
    /\ UNCHANGED <<args, object_store, compileExit, delivered, pc, error, raisedAt, events>>
    /\ UNCHANGED jobVars
    /\ UNCHANGED runVars
    /\ UNCHANGED parseVars
    /\ UNCHANGED timeVars

\* lines 291-292: transform_single_file(args.path, args.output_dir) is called
\* without its required `chunks` argument and raises TypeError.
SingleFile ==
    /\ mainpc = "compiled"
    /\ args.path
    /\ mainpc' = "crashed"
    /\ UNCHANGED <<args, object_store, compileExit, delivered, pc, error, raisedAt, events>>
    /\ UNCHANGED jobVars
    /\ UNCHANGED runVars
    /\ UNCHANGED parseVars
    /\ UNCHANGED timeVars

\* lines 293-295
Exit ==
    /\ mainpc = "compiled"
    /\ ~args.path /\ ~args.request_id
    /\ mainpc' = "exited"
    /\ UNCHANGED <<args, object_store, compileExit, delivered, pc, error, raisedAt, events>>
    /\ UNCHANGED jobVars
    /\ UNCHANGED runVars
    /\ UNCHANGED parseVars
    /\ UNCHANGED timeVars


\* ------------------------------------------------------------ callback --
Log(e) == events' = Append(events, e)

\* a failed conversion, upload or removal tried again in place
CaughtResumesSink(at, err) ==
    /\ pc' = IF at \in {"convert", "upload", "remove"} THEN at ELSE "except"
    /\ error' = err
    /\ raisedAt' = at
    /\ UNCHANGED <<mainpc, file_done, file_retries>>

\* An exception raised inside the try block (lines 167-190) reaches the
\* `except Exception` clause of line 192.
Caught(at, err) ==
    /\ pc' = "except"
    /\ error' = err
    /\ raisedAt' = at
    /\ UNCHANGED <<mainpc, file_done, file_retries>>

\* An exception raised anywhere else in callback leaves callback, unwinds
\* the consumer started at line 289 and ends the process.
Escapes(at, err) ==
    /\ pc' = "raised"
    /\ error' = err
    /\ raisedAt' = at
    /\ mainpc' = "crashed"
    /\ UNCHANGED <<file_done, file_retries>>

file_path == transform_request["file-path"]
output_path == OutputPath(file_path)

\* The consumer hands the next message to callback (line 150).
Deliver ==
    /\ mainpc = "consuming"
    /\ ConsumerReady
    /\ delivered < MaxMsgs
    /\ \E b \in Bodies : body' = b
    /\ delivered' = delivered + 1
    /\ pc' = "decode"
    /\ transform_request' = NoRequest
    /\ events' = << >>
    /\ error' = None
    /\ raisedAt' = None
    /\ tick' = 0
    /\ tock' = 0
    /\ UNCHANGED <<file_done, file_retries>>
    /\ UNCHANGED mainVars
    /\ UNCHANGED runVars
    /\ UNCHANGED parseVars

\* lines 151-157
Decode ==
    /\ pc = "decode"
    /\ IF DecodeRaises(body)
       THEN /\ Escapes("decode", "DecodeError")
            /\ UNCHANGED transform_request
       ELSE /\ transform_request' = body.obj
            /\ pc' = "start_post"
            /\ UNCHANGED <<mainpc, error, raisedAt, file_done, file_retries>>
    /\ UNCHANGED <<args, object_store, compileExit, delivered, body, events>>
    /\ UNCHANGED runVars
    /\ UNCHANGED parseVars
    /\ UNCHANGED timeVars

\* lines 159-165
PostStart ==
    /\ pc = "start_post"
    /\ \E ok \in BOOLEAN :
          /\ Log(Event("post_status_update", "start", 0, None, ok))
          /\ IF ok
             THEN /\ tick' = Now(events')
                  /\ file_done' = FALSE
                  /\ file_retries' = 0
                  /\ pc' = "run"
                  /\ UNCHANGED <<mainpc, error, raisedAt>>
             ELSE /\ Escapes("start_post", "post_status_update")
                  /\ UNCHANGED tick
    /\ UNCHANGED tock
    /\ UNCHANGED <<args, object_store, compileExit, delivered, body, transform_request>>
    /\ UNCHANGED runVars
    /\ UNCHANGED parseVars

\* `while not file_done` entered; lines 169-172 and 222-226: runner.sh is run
\* through the shell, piped into tee.
RunExternal ==
    /\ pc = "run"
    /\ ~file_done
    /\ \E rc \in ExitCodes, tc \in ExitCodes, out \in FsStates :
          /\ runnerExit' = rc
          /\ r' = OsSystem(rc, tc)
          /\ fs' = [fs EXCEPT ![output_path] = out]
    /\ classified' = None
    /\ Log(Event("runner", None, file_retries + 1, None, TRUE))
    /\ pc' = "classify"
    /\ UNCHANGED <<error, raisedAt, delivered>>
    /\ UNCHANGED mainVars
    /\ UNCHANGED jobVars
    /\ UNCHANGED parseVars
    /\ UNCHANGED timeVars

\* lines 228-233
ReasonBad(res, st) ==
    IF res # 0 THEN "Error return from transformer"
    ELSE IF ~Exists(st) THEN "Output file was not found"
    ELSE None

\* lines 228-241
Classify ==
    /\ pc = "classify"
    /\ LET reason_bad == ReasonBad(r, fs[output_path]) IN
          IF reason_bad # None
          THEN /\ classified' = "failure"
               /\ Caught("classify", reason_bad)
               /\ UNCHANGED tock
          ELSE /\ classified' = "success"
               /\ pc' = AfterClassify(object_store)
               \* with an object store transform_single_file returns here: line 174
               /\ tock' = IF object_store THEN Now(events) ELSE tock
               /\ UNCHANGED <<mainpc, error, raisedAt, file_done, file_retries>>
    /\ UNCHANGED tick
    /\ UNCHANGED <<args, object_store, compileExit, delivered, body,
                   transform_request, r, runnerExit, fs, events>>
    /\ UNCHANGED parseVars

\* lines 242-255; uproot can only read a regular file that holds a tree
Convert ==
    /\ pc = "convert"
    /\ \E ok \in BOOLEAN :
          /\ ok => fs[output_path] = "file"
          /\ Log(Event("convert", None, file_retries + 1, None, ok))
          /\ IF ok
             THEN /\ pc' = "complete_post"
                  \* transform_single_file returns: line 174
                  /\ tock' = Now(events')
                  /\ UNCHANGED <<mainpc, error, raisedAt, file_done, file_retries>>
             ELSE /\ Caught("convert", "convert")
                  /\ UNCHANGED tock
    /\ UNCHANGED tick
    /\ UNCHANGED <<args, object_store, compileExit, delivered, body, transform_request>>
    /\ UNCHANGED runVars
    /\ UNCHANGED parseVars

\* line 177
Upload ==
    /\ pc = "upload"
    /\ \E ok \in BOOLEAN :
          /\ ok => IsFile(fs[output_path])
          /\ Log(Event("upload_file", None, file_retries + 1, None, ok))
          /\ IF ok
             THEN /\ pc' = "remove"
                  /\ UNCHANGED <<mainpc, error, raisedAt, file_done, file_retries>>
             ELSE Caught("upload", "upload_file")
    /\ UNCHANGED <<args, object_store, compileExit, delivered, body, transform_request>>
    /\ UNCHANGED runVars
    /\ UNCHANGED parseVars
    /\ UNCHANGED timeVars

\* line 178: os.remove raises OSError on anything but a file
Remove ==
    /\ pc = "remove"
    /\ IF IsFile(fs[output_path])
       THEN /\ fs' = [fs EXCEPT ![output_path] = "absent"]
            /\ Log(Event("remove", None, file_retries + 1, None, TRUE))
            /\ pc' = "complete_post"
            /\ UNCHANGED <<mainpc, error, raisedAt, file_done, file_retries>>
       ELSE /\ Log(Event("remove", None, file_retries + 1, None, FALSE))
            /\ Caught("remove", "os.remove")
            /\ UNCHANGED fs
    /\ UNCHANGED <<args, object_store, compileExit, delivered, body,
                   transform_request, r, runnerExit, classified>>
    /\ UNCHANGED parseVars
    /\ UNCHANGED timeVars

\* lines 180-182
PostComplete ==
    /\ pc = "complete_post"
    /\ \E ok \in BOOLEAN :
          /\ Log(Event("post_status_update", "complete", file_retries + 1, None, ok)
                @@ [info |-> Elapsed(tick, tock)])
          /\ IF ok
             THEN /\ pc' = "success_record"
                  /\ UNCHANGED <<mainpc, error, raisedAt, file_done, file_retries>>
             ELSE Caught("complete_post", "post_status_update")
    /\ UNCHANGED <<args, object_store, compileExit, delivered, body, transform_request>>
    /\ UNCHANGED runVars
    /\ UNCHANGED parseVars
    /\ UNCHANGED timeVars

\* lines 183-190
PutFileCompleteSuccess ==
    /\ pc = "success_record"
    /\ \E ok \in BOOLEAN :
          /\ Log(Event("put_file_complete", "success", file_retries + 1, None, ok)
                @@ ZeroCounters @@ [total_time |-> Elapsed(tick, tock)])
          /\ IF ok
             THEN /\ file_done' = TRUE
                  /\ pc' = "ack"
                  /\ UNCHANGED <<mainpc, error, raisedAt, file_retries>>
             ELSE Caught("success_record", "put_file_complete")
    /\ UNCHANGED <<args, object_store, compileExit, delivered, body, transform_request>>
    /\ UNCHANGED runVars
    /\ UNCHANGED parseVars
    /\ UNCHANGED timeVars

\* lines 192-194 and the else of line 210
HandleError ==
    /\ pc = "except"
    /\ file_retries' = file_retries + 1
    /\ pc' = IF RetriesExhausted(file_retries + 1) THEN "dead_letter" ELSE "retry_post"
    /\ UNCHANGED <<body, transform_request, file_done, error, raisedAt, delivered, events>>
    /\ UNCHANGED mainVars
    /\ UNCHANGED runVars
    /\ UNCHANGED parseVars
    /\ UNCHANGED timeVars

\* lines 195-198
PublishDeadLetter ==
    /\ pc = "dead_letter"
    /\ transform_request' = WithError(transform_request, error)
    /\ \E ok \in BOOLEAN :
          /\ Log(Event("basic_publish", "transformation_failures", file_retries, error, ok)
                @@ [routing_key |-> RoutingKey(transform_request["request-id"]),
                    body |-> JsonDumps(transform_request')])
          /\ IF ok
             THEN /\ pc' = "failure_record"
                  /\ UNCHANGED <<mainpc, error, raisedAt, file_done, file_retries>>
             ELSE Escapes("dead_letter", "basic_publish")
    /\ UNCHANGED <<args, object_store, compileExit, delivered, body>>
    /\ UNCHANGED runVars
    /\ UNCHANGED parseVars
    /\ UNCHANGED timeVars

\* lines 199-201
PutFileCompleteFailure ==
    /\ pc = "failure_record"
    /\ \E ok \in BOOLEAN :
          /\ Log(Event("put_file_complete", "failure", file_retries, None, ok)
                @@ ZeroCounters @@ [total_time |-> 0])
          /\ IF ok
             THEN /\ pc' = "failure_post"
                  /\ UNCHANGED <<mainpc, error, raisedAt, file_done, file_retries>>
             ELSE Escapes("failure_record", "put_file_complete")
    /\ UNCHANGED <<args, object_store, compileExit, delivered, body, transform_request>>
    /\ UNCHANGED runVars
    /\ UNCHANGED parseVars
    /\ UNCHANGED timeVars

\* lines 203-209
PostFailure ==
    /\ pc = "failure_post"
    /\ \E ok \in BOOLEAN :
          /\ Log(Event("post_status_update", "failure", file_retries, error, ok))
          /\ IF ok
             THEN /\ file_done' = TRUE
                  /\ pc' = "ack"
                  /\ UNCHANGED <<mainpc, error, raisedAt, file_retries>>
             ELSE Escapes("failure_post", "post_status_update")
    /\ UNCHANGED <<args, object_store, compileExit, delivered, body, transform_request>>
    /\ UNCHANGED runVars
    /\ UNCHANGED parseVars
    /\ UNCHANGED timeVars

\* lines 211-214, then back to the loop test of line 166
PostRetry ==
    /\ pc = "retry_post"
    /\ \E ok \in BOOLEAN :
          /\ Log(Event("post_status_update", "retry", file_retries, error, ok))
          /\ IF ok
             THEN /\ pc' = "run"
                  /\ UNCHANGED <<mainpc, error, raisedAt, file_done, file_retries>>
             ELSE Escapes("retry_post", "post_status_update")
    /\ UNCHANGED <<args, object_store, compileExit, delivered, body, transform_request>>
    /\ UNCHANGED runVars
    /\ UNCHANGED parseVars
    /\ UNCHANGED timeVars

\* line 216, reached when the loop test finds file_done
Ack ==
    /\ pc = "ack"
    /\ file_done
    /\ \E ok \in BOOLEAN :
          /\ Log(Event("basic_ack", None, 0, None, ok))
          /\ IF ok
             THEN /\ pc' = "idle"
                  /\ UNCHANGED <<mainpc, error, raisedAt, file_done, file_retries>>
             ELSE Escapes("ack", "basic_ack")
    /\ UNCHANGED <<args, object_store, compileExit, delivered, body, transform_request>>
    /\ UNCHANGED runVars
    /\ UNCHANGED parseVars
    /\ UNCHANGED timeVars

Next ==
    \/ Configure
    \/ compile_code
    \/ StartConsumer
    \/ SingleFile
    \/ Exit
    \/ Deliver
    \/ Decode
    \/ PostStart
    \/ RunExternal
    \/ Classify
    \/ Convert
    \/ Upload
    \/ Remove
    \/ PostComplete
    \/ PutFileCompleteSuccess
    \/ HandleError
    \/ PublishDeadLetter
    \/ PutFileCompleteFailure
    \/ PostFailure
    \/ PostRetry
    \/ Ack

Spec == Init /\ [][Next]_vars

\* ------------------------------------------------- reading the events ----
Indices == DOMAIN events

\* positions of the status updates with this code that were posted
Posted(code) ==
    {i \in Indices : events[i].op = "post_status_update" /\ events[i].status = code
                     /\ events[i].ok}

\* positions of the completion records with this status that were reported
Recorded(status) ==
    {i \in Indices : events[i].op = "put_file_complete" /\ events[i].status = status
                     /\ events[i].ok}

DeadLetters == {i \in Indices : events[i].op = "basic_publish" /\ events[i].ok}

AckCalls == {i \in Indices : events[i].op = "basic_ack"}

RunnerCalls == {i \in Indices : events[i].op = "runner"}

\* the states of the job of the message callback holds
Decoded == transform_request # NoRequest
Succeeded == Decoded /\ file_done /\ Recorded("success") # {}
Failed == Decoded /\ file_done /\ Posted("failure") # {}
Terminal == Succeeded \/ Failed

\* callback has returned normally, or an exception has left it
Returned == Decoded /\ pc = "idle"
Aborted == Decoded /\ pc = "raised"

SuccessOutcome == Posted("complete") # {} \/ Recorded("success") # {}
FailureOutcome == Posted("failure") # {} \/ Recorded("failure") # {} \/ DeadLetters # {}

\* ---------------------------------------------------------------- C1 ----
\* C1: for every message callback decodes, basic_ack is called exactly once:
\* never more than once, never before the job is Succeeded or Failed (so not
\* during an attempt or between two attempts), and once callback is over for
\* the message it has been called.
C1_AckExactlyOnceAfterTerminal ==
    /\ Cardinality(AckCalls) <= 1
    /\ AckCalls # {} => Terminal
    /\ (Returned \/ Aborted) => Cardinality(AckCalls) = 1

\* ---------------------------------------------------------------- C2 ----
\* C2: every admitted request ends in exactly one of Succeeded and Failed:
\* when callback returns the job is in one of them, and no message carries
\* both a success outcome and a failure outcome.
C2_ExactlyOneTerminalOutcome ==
    /\ Returned => (Succeeded \/ Failed) /\ ~(Succeeded /\ Failed)
    /\ Returned => ~(SuccessOutcome /\ FailureOutcome)

\* ---------------------------------------------------------------- C3 ----
\* C3: once callback is over for a message whose MAX_RETRIES attempts all
\* failed, exactly MAX_RETRIES-1 retry updates and one failure update were
\* posted, one dead-letter message was published and the message was
\* acknowledged once.
C3_ExhaustedRetriesEffects ==
    ((Returned \/ Aborted) /\ file_retries = MAX_RETRIES /\ Cardinality(RunnerCalls) = MAX_RETRIES)
        => /\ Cardinality(Posted("retry")) = MAX_RETRIES - 1
           /\ Cardinality(Posted("failure")) = 1
           /\ Cardinality(DeadLetters) = 1
           /\ Cardinality(AckCalls) = 1

\* ---------------------------------------------------------------- C4 ----
\* C4: a job that Succeeded after k failed attempts posted exactly one start
\* update, before every other call, exactly k retry updates carrying the
\* attempt counts 1..k in that order, and exactly one complete update.
C4_SuccessAfterKFailures ==
    (Returned /\ Succeeded)
        => /\ file_retries < MAX_RETRIES
           /\ Posted("start") = {1}
           /\ Cardinality(Posted("retry")) = file_retries
           /\ \A i \in Posted("retry") :
                 events[i].try = Cardinality({j \in Posted("retry") : j <= i})
           /\ Cardinality(Posted("complete")) = 1

\* ---------------------------------------------------------------- C5 ----
\* The rules of C5 for one step: file_retries starts at 0 when the retry loop is entered, changes only
\* by +1 and only when a failed attempt is handled, never exceeds
\* MAX_RETRIES; a handled failure goes to the retry update while the counter
\* is below MAX_RETRIES and to the failure branch exactly when it reaches
\* MAX_RETRIES; runner.sh is invoked at most MAX_RETRIES times per message.
C5_RetryStep ==
    /\ file_retries' \in 0..MAX_RETRIES
    /\ (pc = "start_post" /\ pc' = "run") => file_retries' = 0
    /\ file_retries' # file_retries =>
          \/ pc = "except" /\ file_retries' = file_retries + 1
          \/ pc = "start_post" /\ pc' = "run"
    /\ pc = "except" =>
          /\ file_retries' = file_retries + 1
          /\ pc' = "retry_post" <=> file_retries' < MAX_RETRIES
          /\ pc' = "dead_letter" <=> file_retries' = MAX_RETRIES
    /\ pc' \in {"retry_post", "dead_letter"} => pc = "except"
    /\ Cardinality(RunnerCalls') <= MAX_RETRIES

\* C5: every step of the worker keeps the retry counter within the rules
\* stated above (C5_RetryStep).
C5_RetryCounter == [][C5_RetryStep]_vars

\* the third failed attempt has been handled and led to the failure branch
C5_Witness ==
    /\ pc = "dead_letter"
    /\ file_retries = MAX_RETRIES
    /\ Cardinality(RunnerCalls) = MAX_RETRIES
    /\ Cardinality(Posted("retry")) = MAX_RETRIES - 1

\* ---------------------------------------------------------------- C6 ----
\* C6: per message at most one complete update, one failure update, one
\* completion record and one dead-letter publication are emitted, whatever
\* the attempts did before failing.
C6_NoDuplicateSideEffects ==
    /\ Cardinality(Posted("complete")) <= 1
    /\ Cardinality(Posted("failure")) <= 1
    /\ Cardinality(Recorded("success") \cup Recorded("failure")) <= 1
    /\ Cardinality(DeadLetters) <= 1

\* ---------------------------------------------------------------- C7 ----
\* C7: no exception raised while a decoded job is processed leaves callback.
C7_NoErrorEscapes == ~Aborted

\* ---------------------------------------------------------------- C8 ----
\* C8: for a malformed message (undecodable body or a missing field) nothing
\* but the decode error happens: no transform run, no retry, no status
\* update, completion record or dead-letter message, no acknowledgement.
C8_MalformedIsFatal ==
    (body # NoBody /\ body \in MalformedBodies)
        => /\ events = << >>
           /\ pc \in {"decode", "raised"}
           /\ transform_request = NoRequest
           /\ pc = "raised" => raisedAt = "decode" /\ mainpc = "crashed"

\* the decode error of a malformed message has left callback
C8_Witness ==
    /\ body # NoBody
    /\ body \in MalformedBodies
    /\ pc = "raised"
    /\ raisedAt = "decode"

\* ---------------------------------------------------------------- C9 ----
\* C9: a worker whose compile step failed never creates the consumer, never
\* receives a message and makes no call for one.
C9_NoWorkAfterCompileFailure ==
    (compileExit \notin {-1, 0})
        => /\ mainpc \notin {"compiled", "consuming"}
           /\ delivered = 0
           /\ events = << >>

\* --------------------------------------------------------------- C10 ----
\* the classification of lines 228-239 has just been made for the latest run
JustClassified ==
    \/ pc \in {"convert", "upload"}
    \/ pc = "except" /\ raisedAt = "classify"

\* C10: transform_single_file classifies a run as failed if and only if
\* runner.sh exited non-zero or the output path does not exist afterwards.
C10_FailureIffExitOrMissing ==
    JustClassified =>
        (classified = "failure" <=> (runnerExit # 0 \/ ~Exists(fs[output_path])))

\* --------------------------------------------------------------- C11 ----
\* C11: whenever the external transform step is classified as a success the
\* output path exists and is a regular file.
C11_SuccessMeansRegularFile ==
    (JustClassified /\ classified = "success") => IsFile(fs[output_path])

\* --------------------------------------------------------------- C12 ----
PublishCalls == {i \in Indices : events[i].op = "basic_publish"}

\* str(error) of the attempt that ended just before position i of the events
FinalError(i) ==
    IF events[i - 1].op = "runner" THEN ReasonBad(r, fs[output_path])
    ELSE IF events[i - 1].op = "remove" THEN "os.remove"
    ELSE events[i - 1].op

\* C12: a dead-letter message is published only when the MAX_RETRIES-th
\* attempt of a message has failed, never on a retry and never for a job that
\* Succeeded; its routing key is the request id followed by "_errors" and its
\* body is the inbound request plus an `error` field holding the error text
\* of that last failed attempt.
C12_DeadLetterOnlyOnFailed ==
    /\ Cardinality(PublishCalls) <= 1
    /\ PublishCalls # {} => Recorded("success") = {} /\ ~Succeeded
    /\ \A i \in PublishCalls :
          /\ i > 1
          /\ events[i].try = MAX_RETRIES
          /\ Cardinality({j \in RunnerCalls : j < i}) = MAX_RETRIES
          /\ Cardinality({j \in Posted("retry") : j < i}) = MAX_RETRIES - 1
          /\ \A j \in Indices : j > i => events[j].status # "retry"
          /\ events[i - 1].op # "runner" => ~events[i - 1].ok
          /\ events[i].status = "transformation_failures"
          /\ events[i].routing_key = body.obj["request-id"] \o <<"_errors">>
          /\ events[i].body.json
          /\ DOMAIN events[i].body.obj = (DOMAIN body.obj) \cup {"error"}
          /\ \A k \in DOMAIN body.obj : events[i].body.obj[k] = body.obj[k]
          /\ events[i].body.obj["error"] = <<FinalError(i)>>

\* a dead-letter message was published after an upload failed in the last attempt
C12_Witness ==
    \E i \in DeadLetters :
        /\ i > 1
        /\ events[i - 1].op = "upload_file"
        /\ events[i].try = MAX_RETRIES

\* --------------------------------------------------------------- C13 ----
\* calls of put_file_complete with status success, returned or not
SuccessRecordCalls ==
    {i \in Indices : events[i].op = "put_file_complete" /\ events[i].status = "success"}

\* position of the last step of transform_single_file made before position i
LastTransformStep(i) ==
    CHOOSE j \in 1..(i - 1) :
        /\ events[j].op \in {"runner", "convert"}
        /\ \A k \in (j + 1)..(i - 1) : events[k].op \notin {"runner", "convert"}

\* C13: the success completion record is reported right after the `complete`
\* status update of the same attempt, which carries the time elapsed between
\* the start post and the return of transform_single_file; the record has
\* status success, the same time and num_messages, total_events and
\* total_bytes equal to 0; the acknowledgement of a Succeeded job comes after
\* both.
C13_CompleteThenRecordThenAck ==
    /\ \A i \in SuccessRecordCalls :
          /\ i > 2
          /\ events[i - 1].op = "post_status_update"
          /\ events[i - 1].status = "complete"
          /\ events[i - 1].ok
          /\ events[i - 1].try = events[i].try
          /\ events[i - 1].info = LastTransformStep(i) - 1
          /\ events[i].total_time = events[i - 1].info
          /\ events[i].num_messages = 0
          /\ events[i].total_events = 0
          /\ events[i].total_bytes = 0
          /\ \A a \in AckCalls : a > i
    /\ Succeeded =>
          \A a \in AckCalls : a - 1 \in Recorded("success") /\ a - 2 \in Posted("complete")

\* a job that needed a retry has Succeeded with an object store and was acknowledged
C13_Witness ==
    /\ Returned
    /\ Succeeded
    /\ object_store
    /\ file_retries > 0
    /\ AckCalls # {}

\* ---------------------------------------------------- parse_output_logs --
MaxLines == 3
MaxParses == 2

\* The lines a log text is made of: the two markers with their numbers, lines
\* that come close to a marker, and any other output of the runner.
LogLines ==
    { [text |-> "Processing events A-B", a |-> 1, b |-> n] : n \in {5, 9} }
    \cup { [text |-> "Processed N events", a |-> n, b |-> 0] : n \in {2, 4} }
    \cup { [text |-> "Processing events A", a |-> 7, b |-> 0],
           [text |-> "processed N events", a |-> 8, b |-> 0],
           [text |-> "other", a |-> 0, b |-> 0] }

LogTexts == UNION { [1..n -> LogLines] : n \in 0..MaxLines }

\* re.compile(r'Processing events \d+-(\d+)') matches in this line
TotalEventsRe(line) == line.text = "Processing events A-B"

\* re.compile(r'Processed (\d+) events') matches in this line
EventsProcessedRe(line) == line.text = "Processed N events"

\* total_events_re.search(buf): position of the first match from i on, 0 for None
RECURSIVE Search(_, _)
Search(buf, i) ==
    IF i > Len(buf) THEN 0
    ELSE IF TotalEventsRe(buf[i]) THEN i
    ELSE Search(buf, i + 1)

\* the loop left at the first match
RECURSIVE FirstProcessed(_, _, _)
FirstProcessed(buf, i, acc) ==
    IF i > Len(buf) THEN acc
    ELSE IF EventsProcessedRe(buf[i]) THEN buf[i].a
    ELSE FirstProcessed(buf, i + 1, acc)

\* lines 96-98: `for m in matches: events_processed = int(m.group(1))`
RECURSIVE ForMatches(_, _, _)
ForMatches(buf, i, acc) ==
    IF i > Len(buf) THEN acc
    ELSE IF EventsProcessedRe(buf[i]) THEN ForMatches(buf, i + 1, buf[i].a)
    ELSE ForMatches(buf, i + 1, acc)

\* lines 87-99.  The two counts only go to the logger (line 99): nothing the
\* worker does afterwards reads them, so the actions of callback leave the
\* variables of the parser alone and the parser is driven on its own texts.
parse_output_logs ==
    /\ parses < MaxParses
    /\ LET match == Search(logfile, 1) IN
          total_events' = IF match # 0 THEN logfile[match].b ELSE 0
    /\ events_processed' = ForMatches(logfile, 1, 0)
    /\ parses' = parses + 1
    /\ UNCHANGED <<logfile, args, object_store, mainpc, compileExit, delivered, pc,
                   error, raisedAt, events>>
    /\ UNCHANGED jobVars
    /\ UNCHANGED runVars
    /\ UNCHANGED timeVars

InitParse ==
    /\ args = [result_destination |-> "volume", output_dir |-> FALSE,
               request_id |-> FALSE, path |-> TRUE]
    /\ object_store = FALSE
    /\ mainpc = "configure"
    /\ compileExit = -1
    /\ delivered = 0
    /\ body = NoBody
    /\ transform_request = NoRequest
    /\ pc = "idle"
    /\ file_done = FALSE
    /\ file_retries = 0
    /\ error = None
    /\ raisedAt = None
    /\ r = 0
    /\ runnerExit = 0
    /\ classified = None
    /\ fs = [p \in OutputPaths |-> "absent"]
    /\ events = << >>
    /\ tick = 0
    /\ tock = 0
    /\ logfile \in LogTexts
    /\ total_events = 0
    /\ events_processed = 0
    /\ parses = 0

NextParse == parse_output_logs

SpecParse == InitParse /\ [][NextParse]_vars

\* --------------------------------------------------------------- C14 ----
TotalMarkers(buf) == {i \in 1..Len(buf) : buf[i].text = "Processing events A-B"}
ProcessedMarkers(buf) == {i \in 1..Len(buf) : buf[i].text = "Processed N events"}

\* what C14 expects of a parse of buf
ExpectedTotal(buf) ==
    IF TotalMarkers(buf) = {} THEN 0
    ELSE buf[CHOOSE i \in TotalMarkers(buf) : \A j \in TotalMarkers(buf) : i <= j].b

ExpectedProcessed(buf) ==
    IF ProcessedMarkers(buf) = {} THEN 0
    ELSE buf[CHOOSE i \in ProcessedMarkers(buf) : \A j \in ProcessedMarkers(buf) : i >= j].a

C14_ParseStep ==
    /\ parses' > 0 =>
          /\ total_events' = ExpectedTotal(logfile')
          /\ events_processed' = ExpectedProcessed(logfile')
    /\ parses > 0 =>
          /\ total_events' = total_events
          /\ events_processed' = events_processed

\* C14: parse_output_logs takes total_events from the first "Processing
\* events a-b" marker (b, or 0 without one) and events_processed from the
\* last "Processed n events" marker (0 without one), for every text, and
\* parsing the same text again gives the same two values.
C14_FirstTotalLastProcessed == [][C14_ParseStep]_vars

\* a text with one total marker and two different processed markers was parsed twice
C14_Witness ==
    /\ parses = 2
    /\ Cardinality(TotalMarkers(logfile)) = 1
    /\ Cardinality(ProcessedMarkers(logfile)) = 2
    /\ logfile[2].a # logfile[3].a
    /\ total_events = 5
    /\ events_processed = logfile[3].a

\* --------------------------------------------------------------- C15 ----
\* callback is at work on a message
InCallback == pc \notin {"idle", "raised"}

AcksReturned == {i \in AckCalls : events[i].ok}

\* The rules of C15 for one step: a message is handed to callback only when
\* callback is not at work; if it is not the first one, the job of the
\* previous message is then Succeeded or Failed and acknowledged; while
\* callback is at work the message, its request and so its output path stay
\* the same and no other message is taken.
C15_OneAtATimeStep ==
    /\ delivered' # delivered =>
          /\ delivered' = delivered + 1
          /\ ~InCallback
          /\ pc' = "decode"
          /\ events' = << >>
          /\ delivered >= 1 =>
                /\ Decoded
                /\ Terminal
                /\ Cardinality(AcksReturned) = 1
                /\ \A i \in AcksReturned : i = Len(events)
    /\ InCallback =>
          /\ delivered' = delivered
          /\ body' = body
          /\ (Decoded /\ Decoded') =>
                transform_request'["file-path"] = transform_request["file-path"]

\* C15: the worker processes strictly one message at a time (C15_OneAtATimeStep
\* holds of every step).
C15_OneMessageAtATime == [][C15_OneAtATimeStep]_vars

\* the job of a second message is running after the first one was acknowledged
C15_Witness ==
    /\ delivered = 2
    /\ pc = "classify"
    /\ file_retries = 1

\* --------------------------------------------------------------- C16 ----
SinkOps == {"convert", "upload_file", "remove"}

\* positions in the try block of lines 167-190, and in the except clause
\* before its branch is taken
InAttempt ==
    pc \in {"classify", "convert", "upload", "remove", "complete_post",
            "success_record", "except"}

StepRank(e) ==
    CASE e.op = "runner" -> 1
      [] e.op = "convert" -> 2
      [] e.op = "upload_file" -> 3
      [] e.op = "remove" -> 4
      [] e.op = "post_status_update" /\ e.status = "complete" -> 5
      [] e.op = "put_file_complete" /\ e.status = "success" -> 6
      [] OTHER -> 0

AttemptSteps == {i \in Indices : StepRank(events[i]) > 0}

\* C17: the steps of one attempt are made in the order external transform,
\* conversion, upload, removal, complete update, success record, each only
\* after every earlier step of the attempt succeeded; in particular nothing
\* follows in an attempt whose external transform failed (runner.sh exited
\* non-zero or left no output).
C17_StepsInOrderAfterSuccess ==
    /\ \A i, j \in AttemptSteps :
          (i < j /\ events[i].try = events[j].try) =>
              /\ StepRank(events[i]) < StepRank(events[j])
              /\ events[i].ok
    /\ pc \in {"convert", "upload", "remove", "complete_post", "success_record"} =>
          /\ classified = "success"
          /\ runnerExit = 0
    /\ pc \in {"convert", "upload"} => Exists(fs[output_path])

\* --------------------------------------------------------------- C18 ----
RemoveCalls == {i \in Indices : events[i].op = "remove"}

\* C18: os.remove of the local output is called only with an object store
\* and only right after upload_file returned for it in the same attempt; an
\* upload that returned is followed by the removal; and once a job has
\* Succeeded with an object store nothing is left at its output path.
C18_RemoveOnlyAfterUpload ==
    /\ \A i \in RemoveCalls :
          /\ object_store
          /\ i > 1
          /\ events[i - 1].op = "upload_file"
          /\ events[i - 1].ok
          /\ events[i - 1].try = events[i].try
    /\ \A i \in Indices :
          (events[i].op = "upload_file" /\ events[i].ok /\ i < Len(events)) =>
              events[i + 1].op = "remove"
    /\ (object_store /\ Succeeded) =>
          /\ fs[output_path] = "absent"
          /\ \E i \in RemoveCalls : events[i].ok /\ events[i].try = file_retries + 1

\* a job Succeeded with an object store on its second attempt; its file was removed
C18_Witness ==
    /\ object_store
    /\ Returned
    /\ Succeeded
    /\ file_retries = 1
    /\ fs[output_path] = "absent"
    /\ Cardinality(RemoveCalls) = 1

\* --------------------------------------------------------------- C19 ----
FailureRecordCalls ==
    {i \in Indices : events[i].op = "put_file_complete" /\ events[i].status = "failure"}

FailurePostCalls ==
    {i \in Indices : events[i].op = "post_status_update" /\ events[i].status = "failure"}

RetryPostCalls ==
    {i \in Indices : events[i].op = "post_status_update" /\ events[i].status = "retry"}

\* C19: the dead-letter publication, the failure completion record and the
\* failure status update are each made at most once, in this order, each
\* right after the one before returned; the acknowledgement of a Failed job
\* comes after the three; and no retry update is posted for the attempt that
\* exhausted MAX_RETRIES.
C19_FailureEffectsInOrder ==
    /\ Cardinality(PublishCalls) <= 1
    /\ Cardinality(FailureRecordCalls) <= 1
    /\ Cardinality(FailurePostCalls) <= 1
    /\ \A j \in FailureRecordCalls :
          j > 1 /\ events[j - 1].op = "basic_publish" /\ events[j - 1].ok
    /\ \A k \in FailurePostCalls :
          k > 2 /\ (k - 1) \in FailureRecordCalls /\ events[k - 1].ok
    /\ \A a \in AckCalls :
          PublishCalls # {} =>
              /\ Failed
              /\ (a - 1) \in Posted("failure")
              /\ (a - 2) \in Recorded("failure")
              /\ (a - 3) \in DeadLetters
    /\ \A i \in RetryPostCalls :
          /\ events[i].try < MAX_RETRIES
          /\ \A p \in PublishCalls : i < p

\* a job has Failed with its three failure effects made and was acknowledged
C19_Witness ==
    /\ Returned
    /\ Failed
    /\ DeadLetters # {}
    /\ Recorded("failure") # {}
    /\ AckCalls # {}
    /\ Cardinality(RetryPostCalls) = MAX_RETRIES - 1

\* --------------------------------------------------------------- C20 ----
ConvertCalls == {i \in Indices : events[i].op = "convert"}
UploadCalls == {i \in Indices : events[i].op = "upload_file"}

\* The rules of C20 for one step: object_store is set by the start-up
\* configuration only; the conversion is made only without an object store,
\* the upload and the removal only with one, so no message has both.
C20_ExclusiveStep ==
    /\ mainpc # "configure" => object_store' = object_store
    /\ object_store' => ConvertCalls' = {}
    /\ ~object_store' => UploadCalls' = {} /\ RemoveCalls' = {}
    /\ ConvertCalls' = {} \/ (UploadCalls' = {} /\ RemoveCalls' = {})
    /\ pc' = "convert" => ~object_store'
    /\ pc' \in {"upload", "remove"} => object_store'

\* C20: the streaming conversion and the object-store upload are mutually
\* exclusive in every attempt of every message (C20_ExclusiveStep holds of
\* every step).
C20_ConvertXorUpload == [][C20_ExclusiveStep]_vars

\* with an object store the second attempt of a message uploaded as the first did
C20_Witness ==
    /\ object_store
    /\ Cardinality(UploadCalls) = 2
    /\ ConvertCalls = {}
    /\ file_retries = 1

====
